---- MODULE Spec2Model ----
(***************************************************************************)
(* Model of the rule engine of SD23039_Lab3.py: evaluate_condition,        *)
(* rule_matches and run_rules, applied to fact sets, conditions and rule   *)
(* sets as they arrive from json.loads (possibly malformed), and to the    *)
(* built-in SCHOLARSHIP_RULES.                                             *)
(*                                                                         *)
(* Numbers are fixed-point: a float is held as an integer count of         *)
(* 1/Scale units (hundredths), which is exact for every number of the      *)
(* model (integers, and decimals of at most two fractional digits).        *)
(* A string is a sequence over an alphabet of atoms: the ten digits, ".",  *)
(* and whole words ("cgpa", ">=", "x") standing for runs of letters that   *)
(* float() cannot read.                                                    *)
(***************************************************************************)
EXTENDS Integers, Sequences, FiniteSets

VARIABLES call, pc, facts, cond, rules, result

vars == <<call, pc, facts, cond, rules, result>>

\* ------------------------------------------------------------- bounds
MaxNum == 3
MaxPriority == 2
MaxRules == 3
MaxMalformedRules == 2
MaxConds == 2

\* hundredths: facts are rounded to two decimals (round(float(cgpa), 2))
Scale == 100

\* ------------------------------------------------------------- values
\* A Python value as json.loads or the form delivers it.
PyInt(n) == [t |-> "int", n |-> n, s |-> <<>>]
PyFloat(h) == [t |-> "float", n |-> h, s |-> <<>>]
PyStr(s) == [t |-> "str", n |-> 0, s |-> s]
None == [t |-> "null", n |-> 0, s |-> <<>>]
\* a JSON array where a scalar is expected (unhashable, not a number)
PyList == [t |-> "list", n |-> 0, s |-> <<>>]
\* the key is not in the dict
Absent == [t |-> "absent", n |-> 0, s |-> <<>>]

Digits == <<"0", "1", "2", "3", "4", "5", "6", "7", "8", "9">>

IsDigit(c) == \E i \in 1..10 : Digits[i] = c

DigitVal(c) == (CHOOSE i \in 1..10 : Digits[i] = c) - 1

RECURSIVE DigitsVal(_)
DigitsVal(ds) ==
    IF ds = <<>> THEN 0
    ELSE DigitsVal(SubSeq(ds, 1, Len(ds) - 1)) * 10 + DigitVal(ds[Len(ds)])

\* str(n) of a non-negative int
RECURSIVE IntToStr(_)
IntToStr(n) ==
    IF n < 10 THEN <<Digits[n + 1]>>
    ELSE IntToStr(n \div 10) \o <<Digits[(n % 10) + 1]>>

\* float(s) of a string: digits with at most one ".", at least one digit.
\* [ok |-> FALSE] is ValueError.
ParseFloat(s) ==
    LET dots == {i \in 1..Len(s) : s[i] = "."}
        bad == {i \in 1..Len(s) : s[i] # "." /\ ~IsDigit(s[i])}
    IN  IF bad # {} \/ Cardinality(dots) > 1 \/ Len(s) - Cardinality(dots) = 0
        THEN [ok |-> FALSE, v |-> 0]
        ELSE LET d == IF dots = {} THEN Len(s) + 1 ELSE CHOOSE i \in dots : TRUE
                 ip == SubSeq(s, 1, d - 1)
                 fp == SubSeq(s, d + 1, Len(s))
                 f1 == IF Len(fp) >= 1 THEN DigitVal(fp[1]) ELSE 0
                 f2 == IF Len(fp) >= 2 THEN DigitVal(fp[2]) ELSE 0
             IN  [ok |-> TRUE, v |-> DigitsVal(ip) * Scale + f1 * (Scale \div 10) + f2]

\* the coercion written with int() in place of float()
ToFloatAsInt(x) ==
    CASE x.t = "int" -> [ok |-> TRUE, v |-> x.n * Scale]
      [] x.t = "float" -> [ok |-> TRUE, v |-> (x.n \div Scale) * Scale]
      [] x.t = "str" ->
           IF x.s # <<>> /\ \A i \in 1..Len(x.s) : IsDigit(x.s[i])
           THEN [ok |-> TRUE, v |-> DigitsVal(x.s) * Scale]
           ELSE [ok |-> FALSE, v |-> 0]
      [] OTHER -> [ok |-> FALSE, v |-> 0]

\* float(x): [ok |-> FALSE] is TypeError or ValueError.
ToFloat(x) ==
    CASE x.t = "int" -> [ok |-> TRUE, v |-> x.n * Scale]
      [] x.t = "float" -> [ok |-> TRUE, v |-> x.n]
      [] x.t = "str" -> ParseFloat(x.s)
      [] OTHER -> [ok |-> FALSE, v |-> 0]

\* ------------------------------------------------------------- OPS
OpSymbols == {"==", "!=", ">", ">=", "<", "<="}

OPS(sym, a, b) ==
    CASE sym = "==" -> a = b
      [] sym = "!=" -> a # b
      [] sym = ">" -> a > b
      [] sym = ">=" -> a >= b
      [] sym = "<" -> a < b
      [] sym = "<=" -> a <= b

\* hash(x) raises TypeError
Unhashable(x) == x.t = "list"

\* ------------------------------------------------------------- facts
FieldNames == {"cgpa", "family_income", "co_curricular score", "disciplinary_actions"}

EmptyFacts == [k \in FieldNames |-> Absent]

\* field in facts (field hashable)
InFacts(f, field) ==
    /\ field.t = "str"
    /\ Len(field.s) = 1
    /\ field.s[1] \in FieldNames
    /\ f[field.s[1]] # Absent

\* op in OPS (op hashable)
InOPS(op) == op.t = "str" /\ Len(op.s) = 1 /\ op.s[1] \in OpSymbols

\* ------------------------------------------------------------- conditions
\* A condition: sized is whether len() applies (a list, a string, a dict);
\* items are what unpacking yields.
Sized(items) == [sized |-> TRUE, items |-> items]
Unsized == [sized |-> FALSE, items |-> <<>>]

Bool(b) == IF b THEN "True" ELSE "False"

\* "True", "False", or "raise" (an exception leaves the function)
evaluate_condition(f, c) ==
    IF ~c.sized THEN "raise"
    ELSE IF Len(c.items) # 3 THEN "False"
    ELSE LET field == c.items[1]
             op == c.items[2]
             value == c.items[3]
         IN  IF Unhashable(field) THEN "raise"
             ELSE IF ~InFacts(f, field) THEN "False"
             ELSE IF Unhashable(op) THEN "raise"
             ELSE IF ~InOPS(op) THEN "False"
             ELSE LET a == ToFloat(f[field.s[1]])
                      b == ToFloat(value)
                  IN  IF a.ok /\ b.ok THEN Bool(OPS(op.s[1], a.v, b.v))
                      ELSE "False"

\* ------------------------------------------------------------- rules
\* An action value: a dict with the keys it carries, or null.
Action(d, r) == [t |-> "dict", keys |-> {"decision", "reason"}, decision |-> d, reason |-> r]
EmptyDict == [t |-> "dict", keys |-> {}, decision |-> "", reason |-> ""]
NoneAction == [t |-> "null", keys |-> {}, decision |-> "", reason |-> ""]
AbsentAction == [t |-> "absent", keys |-> {}, decision |-> "", reason |-> ""]

\* The value under "conditions": a list of conditions, a value that cannot be
\* iterated (null, a number), or no such key.
CondList(cs) == [t |-> "list", cs |-> cs]
NoneConditions == [t |-> "null", cs |-> <<>>]
AbsentConditions == [t |-> "absent", cs |-> <<>>]

\* A rule as json.loads delivers it: a dict, or something else (isdict FALSE).
Rule(name, priority, conditions, action) ==
    [isdict |-> TRUE, name |-> name, priority |-> priority,
     conditions |-> conditions, action |-> action]
NotADict ==
    [isdict |-> FALSE, name |-> "", priority |-> Absent,
     conditions |-> AbsentConditions, action |-> AbsentAction]

\* all(evaluate_condition(facts, c) for c in cs): stops at the first condition
\* that is not true; an exception leaves the loop.
RECURSIVE AllHold(_, _)
AllHold(f, cs) ==
    IF cs = <<>> THEN "True"
    ELSE LET r == evaluate_condition(f, Head(cs))
         IN  IF r = "True" THEN AllHold(f, Tail(cs)) ELSE r

\* any() in place of all()
RECURSIVE AnyHold(_, _)
AnyHold(f, cs) ==
    IF cs = <<>> THEN "False"
    ELSE LET r == evaluate_condition(f, Head(cs))
         IN  IF r = "False" THEN AnyHold(f, Tail(cs)) ELSE r

rule_matches_any(f, r) ==
    IF ~r.isdict THEN "raise"
    ELSE IF r.conditions.t = "absent" THEN AnyHold(f, <<>>)
    ELSE IF r.conditions.t # "list" THEN "raise"
    ELSE AnyHold(f, r.conditions.cs)

\* "True", "False", or "raise"
rule_matches(f, r) ==
    IF ~r.isdict THEN "raise"
    ELSE IF r.conditions.t = "absent" THEN AllHold(f, <<>>)
    ELSE IF r.conditions.t # "list" THEN "raise"
    ELSE AllHold(f, r.conditions.cs)

\* [r for r in rules if rule_matches(facts, r)]
RECURSIVE FiredRules(_, _)
FiredRules(f, rs) ==
    IF rs = <<>> THEN [raised |-> FALSE, fired |-> <<>>]
    ELSE LET m == rule_matches(f, Head(rs))
             rest == FiredRules(f, Tail(rs))
         IN  IF m = "raise" \/ rest.raised THEN [raised |-> TRUE, fired |-> <<>>]
             ELSE IF m = "True" THEN [raised |-> FALSE, fired |-> <<Head(rs)>> \o rest.fired]
             ELSE rest

\* r.get("priority", 0)
PriorityKey(r) == IF r.priority = Absent THEN PyInt(0) ELSE r.priority

IsNumber(v) == v.t \in {"int", "float"}

\* the value of a number, for <
NumVal(v) == IF v.t = "int" THEN v.n * Scale ELSE v.n

\* sorted() compares the keys of two or more rules, and < between a number and
\* null, or null and null, raises TypeError.  (String keys are not drawn.)
SortRaises(fired) ==
    Len(fired) >= 2 /\ \E i \in 1..Len(fired) : ~IsNumber(PriorityKey(fired[i]))

InsertAt(s, r, pos) == SubSeq(s, 1, pos) \o <<r>> \o SubSeq(s, pos + 1, Len(s))

RECURSIVE SortedAscending(_)
SortedAscending(fired) ==
    IF fired = <<>> THEN <<>>
    ELSE LET s == SortedAscending(SubSeq(fired, 1, Len(fired) - 1))
             r == fired[Len(fired)]
             k == NumVal(PriorityKey(r))
         IN  InsertAt(s, r, Cardinality({i \in 1..Len(s) : NumVal(PriorityKey(s[i])) <= k}))

RECURSIVE SortedTiesReversed(_)
SortedTiesReversed(fired) ==
    IF fired = <<>> THEN <<>>
    ELSE LET s == SortedTiesReversed(SubSeq(fired, 1, Len(fired) - 1))
             r == fired[Len(fired)]
             k == NumVal(PriorityKey(r))
         IN  InsertAt(s, r, Cardinality({i \in 1..Len(s) : NumVal(PriorityKey(s[i])) > k}))

\* sorted(fired, key=..., reverse=True): descending, and stable (equal keys
\* keep their order in fired)
RECURSIVE SortedDescending(_)
SortedDescending(fired) ==
    IF fired = <<>> THEN <<>>
    ELSE LET s == SortedDescending(SubSeq(fired, 1, Len(fired) - 1))
             r == fired[Len(fired)]
             k == NumVal(PriorityKey(r))
         IN  InsertAt(s, r, Cardinality({i \in 1..Len(s) : NumVal(PriorityKey(s[i])) >= k}))

\* the two defaults mixed up
NoMatchReview == Action("REVIEW", "Matched rule has no defined action")

NoMatchAction == Action("REJECT", "No rule criteria matched for an award or review")

NoActionDefault == Action("REVIEW", "Matched rule has no defined action")

\* r.get("action", default)
GetAction(r) == IF r.action.t = "absent" THEN NoActionDefault ELSE r.action

Raised == [raised |-> TRUE, value |-> "None", action |-> AbsentAction, fired |-> <<>>]
Returned(a, fired) == [raised |-> FALSE, value |-> "None", action |-> a, fired |-> fired]
ReturnedBool(v) ==
    IF v = "raise" THEN Raised
    ELSE [raised |-> FALSE, value |-> v, action |-> AbsentAction, fired |-> <<>>]
NoResult == [raised |-> FALSE, value |-> "None", action |-> AbsentAction, fired |-> <<>>]

run_rules(f, rs) ==
    LET m == FiredRules(f, rs)
    IN  IF m.raised THEN Raised
        ELSE IF m.fired = <<>> THEN Returned(NoMatchAction, <<>>)
        ELSE IF SortRaises(m.fired) THEN Raised
        ELSE LET fired_sorted == SortedDescending(m.fired)
             IN  Returned(GetAction(fired_sorted[1]), fired_sorted)

\* ------------------------------------------------------------- knowledge base
Field(k) == PyStr(<<k>>)
Op(sym) == PyStr(<<sym>>)
Condition(k, sym, v) == Sized(<<Field(k), Op(sym), v>>)

TopMeritPriority == 100
LowCgpaPriority == 95
DisciplinaryPriority == 90
PartialPriority == 80
NeedBasedPriority == 70

\* the top-merit rule ranked below the partial-scholarship rule
TopMeritRuleRankedLow ==
    Rule("Top merit candidate", PyInt(NeedBasedPriority + 5),
         CondList(<<Condition("cgpa", ">=", PyFloat(370)),
                    Condition("co_curricular score", ">=", PyInt(80)),
                    Condition("family_income", "<=", PyInt(8000)),
                    Condition("disciplinary_actions", "==", PyInt(0))>>),
         Action("AWARD FULL",
                "Excellent academic & co-curricular performance, with acceptable need"))

TopMeritRule ==
    Rule("Top merit candidate", PyInt(TopMeritPriority),
         CondList(<<Condition("cgpa", ">=", PyFloat(370)),
                    Condition("co_curricular score", ">=", PyInt(80)),
                    Condition("family_income", "<=", PyInt(8000)),
                    Condition("disciplinary_actions", "==", PyInt(0))>>),
         Action("AWARD FULL",
                "Excellent academic & co-curricular performance, with acceptable need"))

\* the disciplinary rule ranked below the need-based rule
DisciplinaryRuleRankedLow ==
    Rule("Serious disciplinary record", PyInt(NeedBasedPriority - 10),
         CondList(<<Condition("disciplinary_actions", ">=", PyInt(2))>>),
         Action("REJECT", "Too many disciplinary records"))

LowCgpaRule ==
    Rule("Low CGPA not eligible", PyInt(LowCgpaPriority),
         CondList(<<Condition("cgpa", "<", PyFloat(250))>>),
         Action("REJECT", "CGPA below minimum scholarship requirement"))

DisciplinaryRule ==
    Rule("Serious disciplinary record", PyInt(DisciplinaryPriority),
         CondList(<<Condition("disciplinary_actions", ">=", PyInt(2))>>),
         Action("REJECT", "Too many disciplinary records"))

PartialRule ==
    Rule("Good candidate partial scholarship", PyInt(PartialPriority),
         CondList(<<Condition("cgpa", ">=", PyFloat(330)),
                    Condition("co_curricular score", ">=", PyInt(60)),
                    Condition("family_income", "<=", PyInt(12000)),
                    Condition("disciplinary_actions", "<=", PyInt(1))>>),
         Action("AWARD PARTIAL", "Good academic & involvement record with moderate need"))

NeedBasedRule ==
    Rule("Need-based review", PyInt(NeedBasedPriority),
         CondList(<<Condition("cgpa", ">=", PyFloat(250)),
                    Condition("family_income", "<=", PyInt(4000))>>),
         Action("REVIEW", "High need but borderline academic score"))

SCHOLARSHIP_RULES ==
    <<TopMeritRule, LowCgpaRule, DisciplinaryRule, PartialRule, NeedBasedRule>>

\* ------------------------------------------------------------- inputs
\* repr() of the float h/Scale: "3.0", "2.5", "2.25"
FloatToStr(h) ==
    LET f == h % Scale
    IN  IntToStr(h \div Scale) \o <<".">> \o
        (IF f % 10 = 0 THEN <<Digits[(f \div 10) + 1]>>
         ELSE <<Digits[(f \div 10) + 1], Digits[(f % 10) + 1]>>)

\* the number h/Scale as a float and as the string repr(float); when it is
\* whole, also as an int and as the string str(int)
NumForms(h) ==
    {PyFloat(h), PyStr(FloatToStr(h))}
    \cup (IF h % Scale = 0
          THEN {PyInt(h \div Scale), PyStr(IntToStr(h \div Scale))}
          ELSE {})

\* the numbers 0, 0.5, 1, ..., MaxNum + 0.5, in hundredths
SomeNumbers == {n * Scale : n \in 0..MaxNum} \cup {n * Scale + Scale \div 2 : n \in 0..MaxNum}

\* values a fact or a threshold may carry: the numbers in each form, a string
\* float() cannot read, null
SomeValues == UNION {NumForms(h) : h \in SomeNumbers} \cup {PyStr(<<"x">>), None}

FactsWith(k, v) == [EmptyFacts EXCEPT ![k] = v]

\* fact sets for evaluate_condition: family_income is never supplied
ConditionFacts == {EmptyFacts} \cup {FactsWith("cgpa", v) : v \in SomeValues}

\* conditions for evaluate_condition: triples over known and unknown fields and
\* operators, lists of another length, and a condition that is no list
SomeConditions ==
    {Sized(<<f, o, v>>) :
        f \in {Field("cgpa"), Field("family_income"), PyList},
        o \in {Op(sym) : sym \in OpSymbols} \cup {Op("=>"), PyList},
        v \in SomeValues}
    \cup {Unsized, Sized(<<>>), Sized(<<Field("cgpa"), Op("==")>>),
          Sized(<<Field("cgpa"), Op("=="), PyInt(1), PyInt(1)>>)}

\* fact sets for the rule modes
RuleFacts == {EmptyFacts, FactsWith("cgpa", PyInt(1)), FactsWith("cgpa", PyFloat(3 * Scale))}

\* conditions a generated rule draws from
ConditionPool ==
    {Condition("cgpa", ">=", PyInt(2)), Condition("cgpa", "<=", PyStr(<<"3", ".", "5">>)),
     Condition("family_income", "<=", PyInt(1)), Sized(<<>>), Unsized}

SeqsUpTo(S, n) == UNION {[1..k -> S] : k \in 0..n}

RuleNames == <<"rule1", "rule2", "rule3", "rule4", "rule5", "rule6">>

\* the i-th generated rule carries its own name and action
ActionOf(i) == Action("REVIEW", RuleNames[i])

\* rules for rule_matches
MatchRules ==
    {Rule(RuleNames[1], Absent, c, ActionOf(1)) :
        c \in {AbsentConditions, NoneConditions}
              \cup {CondList(cs) : cs \in SeqsUpTo(ConditionPool, MaxConds)}}
    \cup {NotADict}

\* rules of the exchange format at position i: any priority (or none, read as
\* 0); matching always, or when cgpa >= 2
WellFormedRules(i) ==
    {Rule(RuleNames[i], p, c, ActionOf(i)) :
        p \in {Absent} \cup {PyInt(k) : k \in 0..MaxPriority},
        c \in {AbsentConditions, CondList(<<Condition("cgpa", ">=", PyInt(2))>>)}}

\* malformed rules at position i
MalformedRules(i) ==
    {NotADict,
     Rule(RuleNames[i], PyInt(1), NoneConditions, ActionOf(i)),
     Rule(RuleNames[i], PyInt(1), CondList(<<Unsized>>), ActionOf(i)),
     Rule(RuleNames[i], PyInt(1), CondList(<<Sized(<<PyList, Op(">="), PyInt(2)>>)>>), ActionOf(i)),
     Rule(RuleNames[i], None, AbsentConditions, ActionOf(i)),
     Rule(RuleNames[i], PyInt(1), AbsentConditions, AbsentAction),
     Rule(RuleNames[i], PyInt(1), AbsentConditions, NoneAction),
     Rule(RuleNames[i], PyInt(1), AbsentConditions, EmptyDict)}

\* the rules position i may hold: of the exchange format, or any
RulesAt(i, malformed) ==
    IF malformed THEN WellFormedRules(i) \cup MalformedRules(i) ELSE WellFormedRules(i)

\* the rule sets of exactly k rules
RECURSIVE RuleSetsOfLen(_, _)
RuleSetsOfLen(k, malformed) ==
    IF k = 0 THEN {<<>>}
    ELSE {Append(rs, r) : rs \in RuleSetsOfLen(k - 1, malformed), r \in RulesAt(k, malformed)}

\* the rule sets of at most n rules
RuleSets(n, malformed) == UNION {RuleSetsOfLen(k, malformed) : k \in 0..n}

\* facts as the form builds them: cgpa a float of two decimals, the others ints
FormFactsOf(c, m, s, d) ==
    [k \in FieldNames |->
        CASE k = "cgpa" -> PyFloat(c)
          [] k = "family_income" -> PyInt(m)
          [] k = "co_curricular score" -> PyInt(s)
          [] k = "disciplinary_actions" -> PyInt(d)]

\* values on both sides of every threshold of the built-in rules
FormFacts ==
    {FormFactsOf(c, m, s, d) :
        c \in {200, 249, 250, 300, 329, 330, 369, 370, 380, 390},
        m \in {1000, 4000, 4001, 7000, 8000, 8001, 12000, 12001, 20000, 50000},
        s \in {0, 10, 59, 60, 79, 80, 85, 90},
        d \in {0, 1, 2, 3}}

\* ------------------------------------------------------------- the calls
NoCondition == Sized(<<>>)

Init ==
    /\ pc = "call"
    /\ result = NoResult
    /\ \/ /\ call = "evaluate_condition"
          /\ facts \in ConditionFacts
          /\ cond \in SomeConditions
          /\ rules = <<>>
       \/ /\ call = "rule_matches"
          /\ facts \in RuleFacts
          /\ cond = NoCondition
          /\ rules \in {<<r>> : r \in MatchRules}
       \/ /\ call = "run_rules"
          /\ facts \in RuleFacts
          /\ cond = NoCondition
          /\ rules \in RuleSets(MaxRules, FALSE) \cup RuleSets(MaxMalformedRules, TRUE)
       \/ /\ call = "run_rules"
          /\ facts \in FormFacts
          /\ cond = NoCondition
          /\ rules = SCHOLARSHIP_RULES

EvaluateCondition ==
    /\ pc = "call"
    /\ call = "evaluate_condition"
    /\ result' = ReturnedBool(evaluate_condition(facts, cond))
    /\ pc' = "done"
    /\ UNCHANGED <<call, facts, cond, rules>>

RuleMatches ==
    /\ pc = "call"
    /\ call = "rule_matches"
    /\ result' = ReturnedBool(rule_matches(facts, rules[1]))
    /\ pc' = "done"
    /\ UNCHANGED <<call, facts, cond, rules>>

RunRules ==
    /\ pc = "call"
    /\ call = "run_rules"
    /\ result' = run_rules(facts, rules)
    /\ pc' = "done"
    /\ UNCHANGED <<call, facts, cond, rules>>

Next == EvaluateCondition \/ RuleMatches \/ RunRules

Spec == Init /\ [][Next]_vars

\* ------------------------------------------------------------- properties
Done(c) == pc = "done" /\ call = c

\* the input positions of the rules that match
Matching == {i \in 1..Len(rules) : rule_matches(facts, rules[i]) = "True"}

\* every rule of the input can be tested, and the matching ones carry a
\* number as priority (or none)
Evaluable ==
    /\ \A i \in 1..Len(rules) : rule_matches(facts, rules[i]) # "raise"
    /\ \A i \in Matching : IsNumber(PriorityKey(rules[i]))

PriorityOf(r) == IF r.priority = Absent THEN 0 ELSE NumVal(r.priority)

\* the input position of a fired rule (names are distinct in the input)
PositionOf(r) == CHOOSE i \in 1..Len(rules) : rules[i] = r

\* C1: when at least one rule matches, run_rules returns as fired list exactly
\* the matching rules, each once, in non-increasing priority order, and the
\* decision is the action of the first of them (the review default when it
\* has no action key), a matching rule of maximal priority.
C1_FiredAreTheMatchingRulesByPriority ==
    (Done("run_rules") /\ Evaluable /\ Matching # {}) =>
        /\ ~result.raised
        /\ Len(result.fired) = Cardinality(Matching)
        /\ \A i \in Matching : \E j \in 1..Len(result.fired) : result.fired[j] = rules[i]
        /\ \A j \in 1..Len(result.fired) : \E i \in Matching : result.fired[j] = rules[i]
        /\ \A j \in 1..(Len(result.fired) - 1) :
               PriorityOf(result.fired[j]) >= PriorityOf(result.fired[j + 1])
        /\ \A i \in Matching : PriorityOf(result.fired[1]) >= PriorityOf(rules[i])
        /\ result.action =
               IF result.fired[1].action.t = "absent"
               THEN Action("REVIEW", "Matched rule has no defined action")
               ELSE result.fired[1].action

\* three rules fire, and the sort moves a later rule of the input to the top
C1_Witness ==
    /\ Done("run_rules")
    /\ Evaluable
    /\ Len(result.fired) >= 3
    /\ PositionOf(result.fired[1]) > PositionOf(result.fired[2])
    /\ PriorityOf(result.fired[1]) > PriorityOf(result.fired[Len(result.fired)])

\* C2: two matching rules of equal priority keep their input order in the
\* fired list, and among the matching rules of highest priority the decision
\* is the action of the earliest in the input.
C2_TiesKeepInputOrder ==
    (Done("run_rules") /\ Evaluable /\ Matching # {}) =>
        /\ \A j, k \in 1..Len(result.fired) :
               (j < k /\ PriorityOf(result.fired[j]) = PriorityOf(result.fired[k]))
                   => PositionOf(result.fired[j]) < PositionOf(result.fired[k])
        /\ LET top == {i \in Matching : \A k \in Matching :
                                            PriorityOf(rules[i]) >= PriorityOf(rules[k])}
               first == CHOOSE i \in top : \A k \in top : i <= k
           IN  /\ result.fired[1] = rules[first]
               /\ rules[first].action.t # "absent" => result.action = rules[first].action

\* two rules tie for the highest priority behind an earlier rule of lower priority
C2_Witness ==
    /\ Done("run_rules")
    /\ Evaluable
    /\ Len(result.fired) >= 3
    /\ PriorityOf(result.fired[1]) = PriorityOf(result.fired[2])
    /\ PriorityOf(result.fired[2]) > PriorityOf(result.fired[3])
    /\ PositionOf(result.fired[3]) < PositionOf(result.fired[1])
    /\ result.action = result.fired[1].action

\* C3: when the rule set is empty or every rule fails to match, run_rules
\* returns the fixed reject action and an empty fired list.
C3_NoMatchRejects ==
    (Done("run_rules") /\ \A i \in 1..Len(rules) : rule_matches(facts, rules[i]) = "False") =>
        /\ ~result.raised
        /\ result.fired = <<>>
        /\ result.action = Action("REJECT", "No rule criteria matched for an award or review")

\* a rule set of two or more rules, none matching
C3_Witness ==
    /\ Done("run_rules")
    /\ Len(rules) >= 2
    /\ \A i \in 1..Len(rules) : rule_matches(facts, rules[i]) = "False"
    /\ result.action.decision = "REJECT"

\* C4: run_rules never raises, whatever the rules of the list are.
C4_RunRulesNeverRaises == Done("run_rules") => ~result.raised

\* x is a number, or a string that float() reads
Coercible(x) ==
    \/ x.t \in {"int", "float"}
    \/ x.t = "str" /\ \E h \in SomeNumbers : x \in NumForms(h)

\* the condition is a triple over a supplied field, a known operator and two
\* values that are numbers
WellFormedCondition(f, c) ==
    /\ c.sized
    /\ Len(c.items) = 3
    /\ \E k \in FieldNames : c.items[1] = Field(k) /\ f[k] # Absent /\ Coercible(f[k])
    /\ \E sym \in OpSymbols : c.items[2] = Op(sym)
    /\ Coercible(c.items[3])

\* the number (in hundredths) that x is a form of
NumberOf(x) == CHOOSE h \in SomeNumbers : x \in NumForms(h)

\* C5: evaluate_condition never raises; it returns false for a condition whose
\* field is absent, whose operator is unknown, whose values are not numbers or
\* that has not exactly three components, and the comparison of the two
\* numbers otherwise.
C5_EvaluateConditionTotal ==
    Done("evaluate_condition") =>
        /\ ~result.raised
        /\ ~WellFormedCondition(facts, cond) => result.value = "False"
        /\ WellFormedCondition(facts, cond) =>
               result.value = Bool(OPS(cond.items[2].s[1],
                                       NumberOf(facts[cond.items[1].s[1]]),
                                       NumberOf(cond.items[3])))

\* C5, for the conditions that are lists (or strings) over a string field and
\* a string operator: the part of the claim the code keeps
C5_HoldsOnHashableTriples ==
    (/\ Done("evaluate_condition")
     /\ cond.sized
     /\ \A i \in 1..Len(cond.items) : ~Unhashable(cond.items[i])) =>
        /\ ~result.raised
        /\ ~WellFormedCondition(facts, cond) => result.value = "False"
        /\ WellFormedCondition(facts, cond) =>
               result.value = Bool(OPS(cond.items[2].s[1],
                                       NumberOf(facts[cond.items[1].s[1]]),
                                       NumberOf(cond.items[3])))

WellFormedAction(a) == a.t = "dict" /\ a.keys = {"decision", "reason"}

\* C6: when the top-ranked matching rule has no well-formed action (no action
\* key, null, a record without decision and reason), run_rules returns the
\* review default.
C6_MalformedActionGivesReviewDefault ==
    (/\ Done("run_rules")
     /\ ~result.raised
     /\ result.fired # <<>>
     /\ ~WellFormedAction(result.fired[1].action)) =>
        result.action = Action("REVIEW", "Matched rule has no defined action")

\* C6, for the one case the code substitutes the default: no action key
C6_AbsentActionGivesReviewDefault ==
    (/\ Done("run_rules")
     /\ ~result.raised
     /\ result.fired # <<>>
     /\ result.fired[1].action.t = "absent") =>
        result.action = Action("REVIEW", "Matched rule has no defined action")

\* the conditions a rule carries, when they can be iterated
ConditionsOf(r) == IF r.conditions.t = "list" THEN r.conditions.cs ELSE <<>>

\* the condition names a field the facts do not supply
ReferencesAbsentField(f, c) ==
    /\ c.sized
    /\ Len(c.items) = 3
    /\ ~Unhashable(c.items[1])
    /\ ~InFacts(f, c.items[1])

\* C7: rule_matches is true iff every condition of the rule holds; a rule with
\* no condition matches every fact set, and a rule with a condition on an
\* absent field matches none.
C7_RuleMatchesIffAllConditionsHold ==
    Done("rule_matches") =>
        LET r == rules[1]
            cs == ConditionsOf(r)
            iterable == r.isdict /\ r.conditions.t \in {"list", "absent"}
        IN  /\ (~result.raised /\ result.value = "True") <=>
                   (iterable /\ \A i \in 1..Len(cs) : evaluate_condition(facts, cs[i]) = "True")
            /\ (iterable /\ \A i \in 1..Len(cs) : evaluate_condition(facts, cs[i]) # "raise")
                   => (~result.raised /\ result.value \in {"True", "False"})
            /\ (iterable /\ cs = <<>>) => (~result.raised /\ result.value = "True")
            /\ (\E i \in 1..Len(cs) : ReferencesAbsentField(facts, cs[i]))
                   => result.value # "True"

\* a rule whose first condition holds and whose second names an absent field
C7_Witness ==
    /\ Done("rule_matches")
    /\ Len(ConditionsOf(rules[1])) = 2
    /\ evaluate_condition(facts, ConditionsOf(rules[1])[1]) = "True"
    /\ ReferencesAbsentField(facts, ConditionsOf(rules[1])[2])
    /\ ~result.raised
    /\ result.value = "False"

FiredNames == [j \in 1..Len(result.fired) |-> result.fired[j].name]

\* C8: against the built-in rules, {3.8, 85, 7000, 0} gives AWARD FULL (the
\* top-merit rule first of several), {2.0, 0, 20000, 0} gives REJECT by the
\* low-CGPA rule alone, and {3.9, 90, 1000, 3} gives REJECT by the
\* disciplinary rule, ahead of the other matching rules and without the
\* top-merit rule.
C8_DefaultRuleSetExamples ==
    (Done("run_rules") /\ rules = SCHOLARSHIP_RULES) =>
        /\ facts = FormFactsOf(380, 7000, 85, 0) =>
               /\ ~result.raised
               /\ result.action.decision = "AWARD FULL"
               /\ Len(result.fired) > 1
               /\ FiredNames[1] = "Top merit candidate"
               /\ result.fired[1].priority = PyInt(100)
        /\ facts = FormFactsOf(200, 20000, 0, 0) =>
               /\ ~result.raised
               /\ result.action.decision = "REJECT"
               /\ FiredNames = <<"Low CGPA not eligible">>
               /\ result.fired[1].priority = PyInt(95)
        /\ facts = FormFactsOf(390, 1000, 90, 3) =>
               /\ ~result.raised
               /\ result.action.decision = "REJECT"
               /\ Len(result.fired) > 1
               /\ FiredNames[1] = "Serious disciplinary record"
               /\ result.fired[1].priority = PyInt(90)
               /\ \A j \in 1..Len(result.fired) : FiredNames[j] # "Top merit candidate"

\* the third example has run
C8_Witness ==
    /\ Done("run_rules")
    /\ rules = SCHOLARSHIP_RULES
    /\ facts = FormFactsOf(390, 1000, 90, 3)
    /\ result.action = Action("REJECT", "Too many disciplinary records")
    /\ FiredNames = <<"Serious disciplinary record", "Need-based review">>

\* C9: the result depends only on the numbers the fact and the threshold
\* stand for: every form of the same two numbers (int, float, string) gives
\* the result this call gave, which is the comparison of the two numbers.
C9_ResultIndependentOfRepresentation ==
    (Done("evaluate_condition") /\ WellFormedCondition(facts, cond)) =>
        LET k == cond.items[1].s[1]
            sym == cond.items[2].s[1]
            a == NumberOf(facts[k])
            b == NumberOf(cond.items[3])
        IN  /\ ~result.raised
            /\ result.value = Bool(OPS(sym, a, b))
            /\ \A x \in NumForms(a), y \in NumForms(b) :
                   evaluate_condition(FactsWith(k, x), Condition(k, sym, y)) = result.value

\* the fact is the string "3.0", the threshold the int 3, and == holds
C9_Witness ==
    /\ Done("evaluate_condition")
    /\ facts = FactsWith("cgpa", PyStr(<<"3", ".", "0">>))
    /\ cond = Condition("cgpa", "==", PyInt(3))
    /\ result.value = "True"

\* C10: against the built-in rules and facts with four numbers, cgpa < 2.5 or
\* two or more disciplinary actions give REJECT, and the decision is AWARD
\* FULL exactly when the four top-merit conditions hold.
C10_RejectRulesAndTopMerit ==
    (Done("run_rules") /\ rules = SCHOLARSHIP_RULES) =>
        LET cgpa == facts["cgpa"].n
            family_income == facts["family_income"].n
            co_curricular_score == facts["co_curricular score"].n
            disciplinary_actions == facts["disciplinary_actions"].n
        IN  /\ ~result.raised
            /\ (cgpa < 250 \/ disciplinary_actions >= 2) => result.action.decision = "REJECT"
            /\ result.action.decision = "AWARD FULL" <=>
                   /\ cgpa >= 370
                   /\ co_curricular_score >= 80
                   /\ family_income <= 8000
                   /\ disciplinary_actions = 0

\* an applicant with top-merit marks and need, rejected on the disciplinary record
C10_Witness ==
    /\ Done("run_rules")
    /\ rules = SCHOLARSHIP_RULES
    /\ facts["cgpa"].n >= 370
    /\ facts["co_curricular score"].n >= 80
    /\ facts["family_income"].n <= 4000
    /\ facts["disciplinary_actions"].n >= 2
    /\ Len(result.fired) >= 2
    /\ result.action.decision = "REJECT"

====
